---------------------------- MODULE Spec2Model ----------------------------
(***************************************************************************)
(* Scroll-state engine of aryansrao/smoothscrolling.                       *)
(*                                                                         *)
(* The repository ships two variants of the same script:                   *)
(*   "v1"  src/smoothscrolling.js   (Universal Smooth Scroll v1.0)         *)
(*   "v2"  src/unnamed/part_000     (Universal Smooth Scroll v2.0)         *)
(* The variable `variant` is fixed by Init and selects whose handlers run. *)
(* Code that is textually identical in both files is modelled once.        *)
(*                                                                         *)
(* Numbers.  The script computes with IEEE doubles.  Offsets, deltas and   *)
(* velocities are modelled in fixed point, in twentieths of a pixel        *)
(* (Px(1) = 20); configuration factors are modelled in hundredths          *)
(* (0.08 = 8).  Products and quotients are rounded to the nearest unit.    *)
(* A twentieth is the coarsest unit at which a lerp by 0.08 still moves    *)
(* whenever the distance exceeds the 0.5px settle threshold.               *)
(*                                                                         *)
(* Scheduling.  requestAnimationFrame callbacks are kept in rafQueue in    *)
(* registration order.  A frame takes the whole queue (frameBatch) and     *)
(* runs its callbacks back to back, one step each; callbacks registered    *)
(* meanwhile go to the next frame.  No event handler runs inside a frame.  *)
(*                                                                         *)
(* Time.  The only timer is the 100 ms timer of the resize listener.  Time *)
(* is counted in ticks of 50 ms while such a timer is pending; burst keeps *)
(* the ticks since the last resize event, the number of resize events of   *)
(* the current burst and the bounds recomputes its timers have run.        *)
(***************************************************************************)
EXTENDS Integers, Sequences, FiniteSets, TLC

VARIABLES
    variant,        \* "v1" | "v2": which script is loaded
    scrollHeight,   \* scroller.scrollHeight  (environment)
    innerHeight,    \* window.innerHeight     (environment)
    config,         \* config object: smoothFactor, touchSensitivity, ...
    targetY,        \* let targetY
    currentY,       \* let currentY
    maxScroll,      \* let maxScroll
    rafId,          \* let rafId; 0 is null, otherwise a frame-request handle
    isAnimating,    \* let isAnimating (v2 only)
    lastDispatchY,  \* let lastDispatchY (v2) / let lastScrollY (v1)
    isTouchDown,    \* let isTouchDown
    lastTouchY,     \* let lastTouchY
    touchVelocity,  \* let touchVelocity
    rafQueue,       \* callbacks registered for the next frame
    frameBatch,     \* callbacks of the frame in progress still to run
    resizeTimeout,  \* pending timers of the resize listener: ticks left, oldest first
    burst,          \* the current burst of resize events (see Resize)
    page,           \* what the script has installed on the page
    transform,      \* offset last written to scroller.style.transform
    lastNotifiedY,  \* currentY at the most recent 'scroll' event, -1 before any
    lastOp,         \* the handler that ran last and what it did
    events          \* input events the behaviour may still take

vars == <<variant, scrollHeight, innerHeight, config, targetY, currentY,
          maxScroll, rafId, isAnimating, lastDispatchY, isTouchDown,
          lastTouchY, touchVelocity, rafQueue, frameBatch, resizeTimeout,
          burst, page, transform, lastNotifiedY, lastOp, events>>

---------------------------------------------------------------------------
(* Fixed point *)

Px(n) == n * 20

Abs(x) == IF x >= 0 THEN x ELSE -x

Max2(a, b) == IF a >= b THEN a ELSE b

Min2(a, b) == IF a <= b THEN a ELSE b

\* n / d rounded to the nearest integer, halves away from zero (d > 0)
Rnd(n, d) == IF n >= 0 THEN (2 * n + d) \div (2 * d)
                       ELSE -((2 * (-n) + d) \div (2 * d))

\* x * f for a factor f given in hundredths
MulPct(x, f) == Rnd(x * f, 100)

---------------------------------------------------------------------------
(* Bounds of the model *)

\* tallest content: this many pixels and a half
MaxContent == 2

\* inertia runs that may be in flight together
MaxRuns == 1

\* input events (everything but frame and timer callbacks) in one behaviour
MaxInputs == 3

\* touch events in one behaviour of TouchSpec
MaxTouches == 4

---------------------------------------------------------------------------
(* Program constants *)

DefaultSmoothFactor == 8

DefaultTouchSensitivity == 30

DefaultInertiaMultiplier == 400

DefaultInertiaDecay == 85

\* if (diff > 0.5)
SettleThreshold == Px(1) \div 2

\* Math.abs(currentY - lastDispatchY) > 1
NotifyThreshold == Px(1)

\* Math.abs(touchVelocity) > 0.2
InertiaStartThreshold == Px(1) \div 5

\* Math.abs(velocity) > 0.5
InertiaStopThreshold == Px(1) \div 2

\* const dt = now - lastTouchTime || 16;  touchVelocity = delta / dt * 16
FrameMs == 16

\* window.innerHeight * 0.8
PageStepPct == 80

\* targetY + 40 (v2 ArrowDown / ArrowUp)
ArrowStep == Px(40)

\* setTimeout(..., 100): the delay of the resize timer, in ticks of 50 ms
QuietTicks == 2

---------------------------------------------------------------------------
(* Helper functions of the script *)

clamp(v, min, max) == Max2(min, Min2(max, v))

lerp(a, b, factor) == a + MulPct(b - a, factor)

\* Math.round(v * 100) / 100: the offset in hundredths of a pixel, as the
\* transform string prints it (Math.round rounds halves up)
round2(v) == (2 * v * 100 + Px(1)) \div (2 * Px(1))

---------------------------------------------------------------------------
(* The state as one record, so that handlers compose *)

St == [variant |-> variant, scrollHeight |-> scrollHeight,
       innerHeight |-> innerHeight, config |-> config,
       targetY |-> targetY, currentY |-> currentY, maxScroll |-> maxScroll,
       rafId |-> rafId, isAnimating |-> isAnimating,
       lastDispatchY |-> lastDispatchY, isTouchDown |-> isTouchDown,
       lastTouchY |-> lastTouchY, touchVelocity |-> touchVelocity,
       rafQueue |-> rafQueue, frameBatch |-> frameBatch,
       resizeTimeout |-> resizeTimeout, burst |-> burst,
       page |-> page,
       transform |-> transform, lastNotifiedY |-> lastNotifiedY,
       lastOp |-> lastOp]

\* The next state is the record r (bound once, as a value).
Commit(r) ==
    \E s \in {r} :
        /\ variant' = s.variant
        /\ scrollHeight' = s.scrollHeight
        /\ innerHeight' = s.innerHeight
        /\ config' = s.config
        /\ targetY' = s.targetY
        /\ currentY' = s.currentY
        /\ maxScroll' = s.maxScroll
        /\ rafId' = s.rafId
        /\ isAnimating' = s.isAnimating
        /\ lastDispatchY' = s.lastDispatchY
        /\ isTouchDown' = s.isTouchDown
        /\ lastTouchY' = s.lastTouchY
        /\ touchVelocity' = s.touchVelocity
        /\ rafQueue' = s.rafQueue
        /\ frameBatch' = s.frameBatch
        /\ resizeTimeout' = s.resizeTimeout
        /\ burst' = s.burst
        /\ page' = s.page
        /\ transform' = s.transform
        /\ lastNotifiedY' = s.lastNotifiedY
        /\ lastOp' = s.lastOp

\* The variables hold the record s.
Holds(s) ==
    /\ variant = s.variant
    /\ scrollHeight = s.scrollHeight
    /\ innerHeight = s.innerHeight
    /\ config = s.config
    /\ targetY = s.targetY
    /\ currentY = s.currentY
    /\ maxScroll = s.maxScroll
    /\ rafId = s.rafId
    /\ isAnimating = s.isAnimating
    /\ lastDispatchY = s.lastDispatchY
    /\ isTouchDown = s.isTouchDown
    /\ lastTouchY = s.lastTouchY
    /\ touchVelocity = s.touchVelocity
    /\ rafQueue = s.rafQueue
    /\ frameBatch = s.frameBatch
    /\ resizeTimeout = s.resizeTimeout
    /\ burst = s.burst
    /\ page = s.page
    /\ transform = s.transform
    /\ lastNotifiedY = s.lastNotifiedY
    /\ lastOp = s.lastOp

\* A handler starts: lastOp names it, keeps its argument (y) and records
\* nothing done yet.
Begin(s, name, y, smooth) ==
    [s EXCEPT !.lastOp = [name |-> name, y |-> y, smooth |-> smooth,
                          dispatched |-> FALSE, wrote |-> FALSE,
                          scheduled |-> FALSE, prevented |-> FALSE]]

---------------------------------------------------------------------------
(* The frame scheduler: requestAnimationFrame / cancelAnimationFrame *)

UsedIds(s) ==
    {s.rafQueue[i].id : i \in DOMAIN s.rafQueue}
        \cup {s.frameBatch[i].id : i \in DOMAIN s.frameBatch}
        \cup {s.rafId}

\* Handles are opaque and positive: the least one that names no pending
\* callback and is not the one rafId still holds.
FreshId(s) ==
    CHOOSE i \in 1..(Cardinality(UsedIds(s)) + 1) :
        /\ i \notin UsedIds(s)
        /\ \A j \in 1..(i - 1) : j \in UsedIds(s)

requestAnimationFrame(s, kind, velocity) ==
    [s EXCEPT !.rafQueue = Append(@, [id |-> FreshId(s), kind |-> kind,
                                      velocity |-> velocity]),
              !.lastOp.scheduled = TRUE]

RemoveId(q, id) == SelectSeq(q, LAMBDA cb : cb.id # id)

cancelAnimationFrame(s, id) ==
    [s EXCEPT !.rafQueue = RemoveId(@, id), !.frameBatch = RemoveId(@, id)]

\* rafId = requestAnimationFrame(animate)
scheduleAnimate(s) ==
    [requestAnimationFrame(s, "animate", 0) EXCEPT !.rafId = FreshId(s)]

PendingAnimate(s) ==
    \/ \E i \in DOMAIN s.rafQueue : s.rafQueue[i].kind = "animate"
    \/ \E i \in DOMAIN s.frameBatch : s.frameBatch[i].kind = "animate"

PendingInertia(s) ==
    Cardinality({i \in DOMAIN s.rafQueue : s.rafQueue[i].kind = "inertia"})
      + Cardinality({i \in DOMAIN s.frameBatch : s.frameBatch[i].kind = "inertia"})

---------------------------------------------------------------------------
(* Bounds, transform, notification *)

\* updateBounds that re-clamps the target only
updateBoundsKeepCurrent(s) ==
    LET m == Max2(0, s.scrollHeight - s.innerHeight)
    IN  [s EXCEPT !.maxScroll = m,
                  !.targetY = clamp(s.targetY, 0, m)]

updateBounds(s) ==
    LET m == Max2(0, s.scrollHeight - s.innerHeight)
    IN  [s EXCEPT !.maxScroll = m,
                  !.targetY = clamp(s.targetY, 0, m),
                  !.currentY = clamp(s.currentY, 0, m)]

\* scroller.style.transform = `translate3d(0, -${round2(currentY)}px, 0)`
writeTransform(s) ==
    [s EXCEPT !.transform = round2(s.currentY), !.lastOp.wrote = TRUE]

\* v2: dispatch a 'scroll' event, then (re)define window.scrollY / pageYOffset
\* with getters that read currentY.
dispatchScrollEvent(s) ==
    [s EXCEPT !.lastNotifiedY = s.currentY,
              !.lastOp.dispatched = TRUE,
              !.page.scrollY = TRUE]

\* v1: the same, but only when currentY moved more than 1px since lastScrollY.
updateScrollPosition(s) ==
    IF Abs(s.currentY - s.lastDispatchY) > NotifyThreshold
    THEN [s EXCEPT !.lastDispatchY = s.currentY,
                   !.lastNotifiedY = s.currentY,
                   !.lastOp.dispatched = TRUE,
                   !.page.scrollY = TRUE]
    ELSE s

---------------------------------------------------------------------------
(* Animation loop *)

\* animate that never takes its settling branch: if (diff >= 0)
animateNoSettle(s) ==
    [scheduleAnimate(writeTransform(
         [s EXCEPT !.currentY = lerp(s.currentY, s.targetY,
                                     s.config.smoothFactor)]))
       EXCEPT !.isAnimating = TRUE]

\* animate that settles from a whole pixel away: if (diff > 1)
animateSettlesEarly(s) ==
    LET diff == Abs(s.targetY - s.currentY)
    IN  IF diff > Px(1)
        THEN LET s1 == writeTransform(
                         [s EXCEPT !.currentY = lerp(s.currentY, s.targetY,
                                                     s.config.smoothFactor)])
                 s2 == IF Abs(s1.currentY - s1.lastDispatchY) > NotifyThreshold
                       THEN [dispatchScrollEvent(s1)
                               EXCEPT !.lastDispatchY = s1.currentY]
                       ELSE s1
             IN  [scheduleAnimate(s2) EXCEPT !.isAnimating = TRUE]
        ELSE LET s1 == writeTransform([s EXCEPT !.currentY = s.targetY])
                 s2 == IF Abs(s1.currentY - s1.lastDispatchY) > 0
                       THEN [dispatchScrollEvent(s1)
                               EXCEPT !.lastDispatchY = s1.currentY]
                       ELSE s1
             IN  [s2 EXCEPT !.rafId = 0, !.isAnimating = FALSE]

\* v2 animate()
animate(s) ==
    LET diff == Abs(s.targetY - s.currentY)
    IN  IF diff > SettleThreshold
        THEN LET s1 == writeTransform(
                         [s EXCEPT !.currentY = lerp(s.currentY, s.targetY,
                                                     s.config.smoothFactor)])
                 s2 == IF Abs(s1.currentY - s1.lastDispatchY) > NotifyThreshold
                       THEN [dispatchScrollEvent(s1)
                               EXCEPT !.lastDispatchY = s1.currentY]
                       ELSE s1
             IN  [scheduleAnimate(s2) EXCEPT !.isAnimating = TRUE]
        ELSE LET s1 == writeTransform([s EXCEPT !.currentY = s.targetY])
                 s2 == IF Abs(s1.currentY - s1.lastDispatchY) > 0
                       THEN [dispatchScrollEvent(s1)
                               EXCEPT !.lastDispatchY = s1.currentY]
                       ELSE s1
             IN  [s2 EXCEPT !.rafId = 0, !.isAnimating = FALSE]

\* v1 animate()
animateV1(s) ==
    LET diff == Abs(s.targetY - s.currentY)
    IN  IF diff > SettleThreshold
        THEN updateScrollPosition(scheduleAnimate(writeTransform(
                 [s EXCEPT !.currentY = lerp(s.currentY, s.targetY,
                                             s.config.smoothFactor)])))
        ELSE updateScrollPosition(
                 [writeTransform([s EXCEPT !.currentY = s.targetY])
                    EXCEPT !.rafId = 0])

\* startAnimation with its test inverted: if (rafId)
startAnimationInverted(s) ==
    IF s.rafId # 0 THEN scheduleAnimate(s) ELSE s

startAnimation(s) ==
    IF s.rafId = 0 THEN scheduleAnimate(s) ELSE s

---------------------------------------------------------------------------
(* Input handlers *)

\* e.preventDefault()
preventDefault(s) == [s EXCEPT !.lastOp.prevented = TRUE]

\* onWheel without its clamp
onWheelUnclamped(s, deltaY) ==
    startAnimation([preventDefault(s) EXCEPT !.targetY = s.targetY + deltaY])

onWheel(s, deltaY) ==
    LET s1 == [preventDefault(s) EXCEPT !.targetY = s.targetY + deltaY]
    IN  startAnimation([s1 EXCEPT !.targetY = clamp(s1.targetY, 0, s1.maxScroll)])

onTouchStart(s, clientY) ==
    [s EXCEPT !.isTouchDown = TRUE, !.lastTouchY = clientY,
              !.touchVelocity = 0]

\* elapsed is now - lastTouchTime, in milliseconds
onTouchMove(s, y, elapsed) ==
    IF ~s.isTouchDown THEN s
    ELSE LET delta == s.lastTouchY - y
             dt == IF elapsed # 0 THEN elapsed ELSE FrameMs
             s1 == [s EXCEPT !.touchVelocity = Rnd(delta * FrameMs, dt),
                             !.lastTouchY = y,
                             !.targetY = s.targetY
                                 + MulPct(delta, s.config.touchSensitivity)]
         IN  startAnimation(
                 [s1 EXCEPT !.targetY = clamp(s1.targetY, 0, s1.maxScroll)])

\* applyInertia without the decay of its velocity
applyInertiaNoDecay(s, velocity) ==
    LET v == velocity
        s1 == [s EXCEPT !.targetY = s.targetY + v]
        s2 == startAnimation(
                  [s1 EXCEPT !.targetY = clamp(s1.targetY, 0, s1.maxScroll)])
    IN  IF Abs(v) > InertiaStopThreshold
        THEN requestAnimationFrame(s2, "inertia", v)
        ELSE s2

\* one frame of the closure applyInertia; velocity is the closure's variable
applyInertia(s, velocity) ==
    LET v == MulPct(velocity, s.config.inertiaDecay)
        s1 == [s EXCEPT !.targetY = s.targetY + v]
        s2 == startAnimation(
                  [s1 EXCEPT !.targetY = clamp(s1.targetY, 0, s1.maxScroll)])
    IN  IF Abs(v) > InertiaStopThreshold
        THEN requestAnimationFrame(s2, "inertia", v)
        ELSE s2

\* onTouchEnd that starts inertia for any movement: Math.abs(touchVelocity) > 0
onTouchEndAnyVelocity(s) ==
    LET s1 == [s EXCEPT !.isTouchDown = FALSE]
    IN  IF Abs(s1.touchVelocity) > 0
        THEN requestAnimationFrame(s1, "inertia",
                 MulPct(s1.touchVelocity, s1.config.inertiaMultiplier))
        ELSE s1

onTouchEnd(s) ==
    LET s1 == [s EXCEPT !.isTouchDown = FALSE]
    IN  IF Abs(s1.touchVelocity) > InertiaStartThreshold
        THEN requestAnimationFrame(s1, "inertia",
                 MulPct(s1.touchVelocity, s1.config.inertiaMultiplier))
        ELSE s1

\* v2 onKeyDown(e); inInput: e.target is an INPUT or a TEXTAREA
onKeyDown(s, key, shiftKey, inInput) ==
    IF inInput THEN s
    ELSE LET step == MulPct(s.innerHeight, PageStepPct)
             t == s.targetY
             m == s.maxScroll
             handled == key \in {"ArrowDown", "ArrowUp", "PageDown", "PageUp",
                                 "Home", "End", " "}
             newT == CASE key = "ArrowDown" -> clamp(t + ArrowStep, 0, m)
                       [] key = "ArrowUp"   -> clamp(t - ArrowStep, 0, m)
                       [] key = "PageDown"  -> clamp(t + step, 0, m)
                       [] key = "PageUp"    -> clamp(t - step, 0, m)
                       [] key = "Home"      -> 0
                       [] key = "End"       -> m
                       [] key = " "         ->
                            clamp(t + (IF shiftKey THEN -step ELSE step), 0, m)
                       [] OTHER             -> t
         IN  IF handled
             THEN startAnimation(preventDefault([s EXCEPT !.targetY = newT]))
             ELSE s

\* v1 onKeyDown(e)
onKeyDownV1(s, key, shiftKey) ==
    LET step == MulPct(s.innerHeight, PageStepPct)
        t == s.targetY
        m == s.maxScroll
        handled == key \in {"ArrowDown", "ArrowUp", "PageDown", "PageUp",
                            "Home", "End", " "}
        newT == CASE key \in {"ArrowDown", "PageDown"} -> clamp(t + step, 0, m)
                  [] key \in {"ArrowUp", "PageUp"}     -> clamp(t - step, 0, m)
                  [] key = "Home"                      -> 0
                  [] key = "End"                       -> m
                  [] key = " "                         ->
                       clamp(t + (IF shiftKey THEN -step ELSE step), 0, m)
                  [] OTHER                             -> t
    IN  IF handled
        THEN startAnimation([preventDefault(s) EXCEPT !.targetY = newT])
        ELSE s

\* clearTimeout(resizeTimeout): the handle names the timer set last, which
\* is the youngest pending one if any is pending
clearTimeout(timers) ==
    IF timers = <<>> THEN timers ELSE SubSeq(timers, 1, Len(timers) - 1)

\* setTimeout(callback, 100)
setTimeout(timers) == Append(timers, QuietTicks)

\* the resize listener without its clearTimeout
onResizeNoClear(s) == [s EXCEPT !.resizeTimeout = setTimeout(@)]

\* the resize listener: clearTimeout(resizeTimeout); resizeTimeout = setTimeout(...)
onResize(s) == [s EXCEPT !.resizeTimeout = setTimeout(clearTimeout(@))]

\* the callback given to setTimeout by the resize listener; the timer that
\* fires is the oldest one
resizeTimer(s) ==
    LET s1 == updateBounds([s EXCEPT !.resizeTimeout = Tail(@)])
    IN  IF s.variant = "v2" THEN dispatchScrollEvent(s1) ELSE s1

\* 50 ms pass
tick(s) ==
    [s EXCEPT !.resizeTimeout = [i \in DOMAIN @ |-> @[i] - 1],
              !.burst.since = Min2(@ + 1, QuietTicks)]

---------------------------------------------------------------------------
(* Overrides of window.scrollTo / window.scrollBy *)

\* An optional property is <<>> when absent and <<v>> when present.
\* a || b: a when present and non-zero, else b
OrElse(a, b) == IF a # <<>> /\ a[1] # 0 THEN a[1] ELSE b

\* window.scrollTo(options)
windowScrollToOptions(s, options) ==
    LET s1 == [s EXCEPT !.targetY =
                  clamp(OrElse(options.top, OrElse(options.y, 0)), 0, s.maxScroll)]
    IN  IF options.behavior = "smooth"
        THEN startAnimation(s1)
        ELSE LET s2 == writeTransform([s1 EXCEPT !.currentY = s1.targetY])
             IN  IF s.variant = "v2" THEN dispatchScrollEvent(s2) ELSE s2

\* window.scrollTo(x, y); v2 reads a y that is no number as 0
windowScrollToXY(s, y) ==
    startAnimation([s EXCEPT !.targetY =
                       clamp(IF y # <<>> THEN y[1] ELSE 0, 0, s.maxScroll)])

\* v2 window.scrollBy(options)
windowScrollByOptions(s, options) ==
    LET deltaY == OrElse(options.top, OrElse(options.y, 0))
        s1 == [s EXCEPT !.targetY = clamp(s.targetY + deltaY, 0, s.maxScroll)]
    IN  IF options.behavior = "smooth"
        THEN startAnimation(s1)
        ELSE dispatchScrollEvent(
                 writeTransform([s1 EXCEPT !.currentY = s1.targetY]))

\* v2 window.scrollBy(x, y)
windowScrollByXY(s, y) ==
    LET deltaY == IF y # <<>> THEN y[1] ELSE 0
    IN  startAnimation(
            [s EXCEPT !.targetY = clamp(s.targetY + deltaY, 0, s.maxScroll)])

---------------------------------------------------------------------------
(* window.SmoothScroll *)

apiScrollTo(s, y, smooth) ==
    LET s1 == [s EXCEPT !.targetY = clamp(y, 0, s.maxScroll)]
    IN  IF smooth
        THEN startAnimation(s1)
        ELSE LET s2 == writeTransform([s1 EXCEPT !.currentY = s1.targetY])
             IN  IF s.variant = "v2" THEN dispatchScrollEvent(s2) ELSE s2

\* scrollBy relative to the rendered offset instead of the target
apiScrollByFromCurrent(s, deltaY, smooth) ==
    LET s1 == [s EXCEPT !.targetY = clamp(s.currentY + deltaY, 0, s.maxScroll)]
    IN  IF smooth
        THEN startAnimation(s1)
        ELSE dispatchScrollEvent(
                 writeTransform([s1 EXCEPT !.currentY = s1.targetY]))

\* v2 only
apiScrollBy(s, deltaY, smooth) ==
    LET s1 == [s EXCEPT !.targetY = clamp(s.targetY + deltaY, 0, s.maxScroll)]
    IN  IF smooth
        THEN startAnimation(s1)
        ELSE dispatchScrollEvent(
                 writeTransform([s1 EXCEPT !.currentY = s1.targetY]))

getPosition(s) == s.currentY

getMaxScroll(s) == s.maxScroll

\* v2 only
apiIsAnimating(s) == s.isAnimating

apiUpdateBounds(s) ==
    IF s.variant = "v2" THEN dispatchScrollEvent(updateBounds(s))
                        ELSE updateBounds(s)

\* setConfig that builds the configuration anew from the defaults:
\* config = Object.assign({...defaults}, newConfig)
setConfigFromDefaults(s, newConfig) ==
    [s EXCEPT !.config =
        [f \in DOMAIN s.config |->
            IF f \in DOMAIN newConfig THEN newConfig[f]
            ELSE [smoothFactor |-> DefaultSmoothFactor,
                  touchSensitivity |-> DefaultTouchSensitivity,
                  inertiaMultiplier |-> DefaultInertiaMultiplier,
                  inertiaDecay |-> DefaultInertiaDecay][f]]]

\* Object.assign(config, newConfig), newConfig a record of some config fields
setConfig(s, newConfig) ==
    [s EXCEPT !.config = [f \in DOMAIN s.config |->
                             IF f \in DOMAIN newConfig THEN newConfig[f]
                                                       ELSE s.config[f]]]

destroy(s) ==
    LET s1 == [s EXCEPT !.page.listeners = FALSE,
                        !.page.wrapped = FALSE,
                        !.page.scrollTo = FALSE]
    IN  IF s1.rafId # 0 THEN cancelAnimationFrame(s1, s1.rafId) ELSE s1

\* what reading window.scrollY / window.pageYOffset returns: currentY once the
\* getters are defined, the native offset (0, the page cannot scroll) before
scrollYQuery(s) == IF s.page.scrollY THEN s.currentY ELSE 0

---------------------------------------------------------------------------
(* Initial state: the state init() leaves *)

ViewHeights == {Px(1), Px(2)}

ContentHeights == {Px(1), Px(MaxContent) + Px(1) \div 2}

Blank(v, h, w) ==
    [variant |-> v, scrollHeight |-> h, innerHeight |-> w,
     config |-> [smoothFactor |-> DefaultSmoothFactor,
                 touchSensitivity |-> DefaultTouchSensitivity,
                 inertiaMultiplier |-> DefaultInertiaMultiplier,
                 inertiaDecay |-> DefaultInertiaDecay],
     targetY |-> 0, currentY |-> 0, maxScroll |-> 0, rafId |-> 0,
     isAnimating |-> FALSE, lastDispatchY |-> 0, isTouchDown |-> FALSE,
     lastTouchY |-> 0, touchVelocity |-> 0, rafQueue |-> <<>>,
     frameBatch |-> <<>>, resizeTimeout |-> <<>>,
     burst |-> [since |-> QuietTicks, events |-> 0, recomputes |-> 0],
     page |-> [wrapped |-> TRUE, listeners |-> TRUE, scrollTo |-> TRUE,
               scrollBy |-> (v = "v2"), scrollY |-> FALSE],
     transform |-> 0, lastNotifiedY |-> -1,
     lastOp |-> [name |-> "init", y |-> 0, smooth |-> FALSE,
                 dispatched |-> FALSE, wrote |-> FALSE, scheduled |-> FALSE,
                 prevented |-> FALSE]]

\* init(): updateBounds(); ...; (v2: dispatchScrollEvent();) startAnimation()
init(v, h, w) ==
    LET s == updateBounds(Blank(v, h, w))
    IN  startAnimation(IF v = "v2" THEN dispatchScrollEvent(s) ELSE s)

Init ==
    /\ events = MaxInputs
    /\ \E v \in {"v1", "v2"}, h \in ContentHeights, w \in ViewHeights :
          Holds(init(v, h, w))

---------------------------------------------------------------------------
(* Actions *)

\* no handler runs while a frame's callbacks are running
Quiet == frameBatch = <<>> /\ events > 0

\* an input event's handler ran and left s
Input(s) == Commit(s) /\ events' = events - 1

\* a frame or timer callback ran and left s
Callback(s) == Commit(s) /\ UNCHANGED events

Listening == page.listeners /\ Quiet

WheelDeltas == {-Px(1), Px(2)}

TouchYs == {Px(1), Px(2)}

TouchElapsed == {0, 64, 80}

Keys == {"ArrowDown", "ArrowUp", "PageDown", "PageUp", "Home", "End", " ", "a"}

\* the keys the switch of onKeyDown has a case for
ScrollKeys == {"ArrowDown", "ArrowUp", "PageDown", "PageUp", "Home", "End", " "}

Offsets == {-Px(1), Px(1), Px(MaxContent + 1)}

Deltas == {-Px(1), Px(1)}

Behaviors == {"smooth", "instant"}

ScrollOptions ==
    {[top |-> <<o>>, y |-> <<>>, behavior |-> b] : o \in {Px(1)}, b \in Behaviors}
      \cup {[top |-> <<0>>, y |-> <<-Px(1)>>, behavior |-> "auto"],
            [top |-> <<>>, y |-> <<>>, behavior |-> "smooth"]}

ConfigPatches ==
    {[smoothFactor |-> 100],
     [smoothFactor |-> 50, inertiaDecay |-> 50]}

Wheel ==
    /\ Listening
    /\ \E d \in WheelDeltas : Input(onWheel(Begin(St, "wheel", d, TRUE), d))

TouchStart ==
    /\ Listening
    /\ \E y \in TouchYs :
          Input(onTouchStart(Begin(St, "touchstart", y, TRUE), y))

TouchMove ==
    /\ Listening
    /\ \E y \in TouchYs, e \in TouchElapsed :
          Input(onTouchMove(Begin(St, "touchmove", y, TRUE), y, e))

\* a release that would start one more inertia run than MaxRuns is left out
TouchEnd ==
    /\ Listening
    /\ \/ PendingInertia(St) < MaxRuns
       \/ Abs(touchVelocity) <= InertiaStartThreshold
    /\ Input(onTouchEnd(Begin(St, "touchend", 0, TRUE)))

KeyDown ==
    /\ Listening
    /\ \E k \in Keys, shift \in BOOLEAN, inInput \in BOOLEAN :
          LET e == [inInput |-> inInput, scrollKey |-> k \in ScrollKeys]
          IN  Input(IF variant = "v2"
                     THEN onKeyDown(Begin(St, "keydown", e, TRUE),
                                    k, shift, inInput)
                     ELSE onKeyDownV1(Begin(St, "keydown", e, TRUE), k, shift))

\* a timer of the resize listener is due
TimerDue == resizeTimeout # <<>> /\ Head(resizeTimeout) = 0

\* burst after one more resize event: an event less than QuietTicks after
\* the previous one continues the burst, a later one starts a new burst
resized(b) ==
    IF b.since < QuietTicks
    THEN [b EXCEPT !.since = 0, !.events = @ + 1]
    ELSE [since |-> 0, events |-> 1, recomputes |-> 0]

\* the window is resized: innerHeight changes and the resize listener runs.
\* A timer that is due runs before an event that arrives later.
Resize ==
    /\ Quiet
    /\ ~TimerDue
    /\ \E w \in ViewHeights :
          Input(onResize(Begin([St EXCEPT !.innerHeight = w,
                                          !.burst = resized(@)],
                                "resize", w, TRUE)))

ResizeTimer ==
    /\ frameBatch = <<>>
    /\ TimerDue
    /\ Callback(resizeTimer(Begin([St EXCEPT !.burst.recomputes = @ + 1],
                                   "resizeTimer", 0, TRUE)))

\* time passes while a timer is pending; a due timer fires first
Tick ==
    /\ resizeTimeout # <<>>
    /\ ~TimerDue
    /\ Callback(tick(Begin(St, "tick", 0, TRUE)))

\* the page changes the height of its content
ContentChange ==
    /\ Quiet
    /\ \E h \in ContentHeights :
          /\ h # scrollHeight
          /\ Input(Begin([St EXCEPT !.scrollHeight = h], "content", h, TRUE))

WindowScrollTo ==
    /\ Quiet
    /\ page.scrollTo
    /\ \/ \E o \in ScrollOptions :
             Input(windowScrollToOptions(
                 Begin(St, "window.scrollTo", 0, o.behavior = "smooth"), o))
       \/ \E y \in Offsets :
             Input(windowScrollToXY(
                 Begin(St, "window.scrollTo(x,y)", y, FALSE), <<y>>))

WindowScrollBy ==
    /\ Quiet
    /\ page.scrollBy
    /\ \/ \E o \in ScrollOptions :
             Input(windowScrollByOptions(
                 Begin(St, "window.scrollBy", 0, o.behavior = "smooth"), o))
       \/ \E y \in Deltas :
             Input(windowScrollByXY(
                 Begin(St, "window.scrollBy(x,y)", y, FALSE), <<y>>))

ApiScrollTo ==
    /\ Quiet
    /\ \E y \in Offsets, smooth \in BOOLEAN :
          Input(apiScrollTo(Begin(St, "scrollTo", y, smooth), y, smooth))

ApiScrollBy ==
    /\ Quiet
    /\ variant = "v2"
    /\ \E d \in Deltas, smooth \in BOOLEAN :
          Input(apiScrollBy(Begin(St, "scrollBy", d, smooth), d, smooth))

ApiUpdateBounds ==
    /\ Quiet
    /\ Input(apiUpdateBounds(Begin(St, "updateBounds", 0, TRUE)))

SetConfig ==
    /\ Quiet
    /\ \E c \in ConfigPatches :
          Input(setConfig(Begin(St, "setConfig", c, TRUE), c))

Destroy ==
    /\ Quiet
    /\ Input(destroy(Begin(St, "destroy", 0, TRUE)))

NextBatch == IF frameBatch # <<>> THEN frameBatch ELSE rafQueue

\* the state a callback of the current frame starts from
FrameState(name) ==
    Begin([St EXCEPT !.frameBatch = Tail(NextBatch),
                     !.rafQueue = IF frameBatch # <<>> THEN rafQueue ELSE <<>>],
          name, 0, TRUE)

AnimateFrame ==
    /\ NextBatch # <<>>
    /\ Head(NextBatch).kind = "animate"
    /\ Callback(IF variant = "v2" THEN animate(FrameState("animate"))
                                ELSE animateV1(FrameState("animate")))

InertiaFrame ==
    /\ NextBatch # <<>>
    /\ Head(NextBatch).kind = "inertia"
    /\ Callback(applyInertia(FrameState("applyInertia"), Head(NextBatch).velocity))

Next ==
    \/ Wheel
    \/ TouchStart
    \/ TouchMove
    \/ TouchEnd
    \/ KeyDown
    \/ Resize
    \/ ResizeTimer
    \/ Tick
    \/ ContentChange
    \/ WindowScrollTo
    \/ WindowScrollBy
    \/ ApiScrollTo
    \/ ApiScrollBy
    \/ ApiUpdateBounds
    \/ SetConfig
    \/ Destroy
    \/ AnimateFrame
    \/ InertiaFrame

Spec == Init /\ [][Next]_vars

AnimateReady == NextBatch # <<>> /\ Head(NextBatch).kind = "animate"

InertiaReady == NextBatch # <<>> /\ Head(NextBatch).kind = "inertia"

TickReady == resizeTimeout # <<>> /\ ~TimerDue

\* The browser keeps running frames and firing timers, and time passes: weak
\* fairness of the callbacks and of Tick.  For the frame callbacks and Tick
\* WF_vars(A) is written out as []<>~ENABLED <<A>>_vars \/ []<><<A>>_vars,
\* with ENABLED <<A>>_vars given by the guard of A (each of them changes
\* lastOp, the queue or the timers).
FairSpec ==
    /\ Spec
    /\ ([]<>(~AnimateReady) \/ []<><<AnimateFrame>>_vars)
    /\ ([]<>(~InertiaReady) \/ []<><<InertiaFrame>>_vars)
    /\ ([]<>(~TickReady) \/ []<><<Tick>>_vars)
    /\ WF_vars(ResizeTimer)

\* The touch handlers and the frames alone, over longer gestures: a page
\* that is only touched.
TouchInit ==
    /\ events = MaxTouches
    /\ \E v \in {"v1", "v2"}, h \in ContentHeights, w \in ViewHeights :
          Holds(init(v, h, w))

TouchNext ==
    \/ TouchStart
    \/ TouchMove
    \/ TouchEnd
    \/ AnimateFrame
    \/ InertiaFrame

TouchSpec == TouchInit /\ [][TouchNext]_vars

---------------------------------------------------------------------------
(* Vocabulary of the properties *)

\* destroy() has run
Destroyed == ~page.listeners

\* the animation loop is Running: an animate callback is pending
Running == PendingAnimate(St)

Idle == ~Running

\* v clamped into [0, m], written out
Clamped(v, m) == IF v < 0 THEN 0 ELSE IF v > m THEN m ELSE v

---------------------------------------------------------------------------
(* C1 .. C10 *)

\* C1: in every reachable state maxScroll >= 0, 0 <= targetY <= maxScroll and
\* 0 <= currentY <= maxScroll (smoothFactor stays in (0,1]).
C1_OffsetsInBounds ==
    /\ config.smoothFactor \in 1..100
    /\ maxScroll >= 0
    /\ 0 <= targetY /\ targetY <= maxScroll
    /\ 0 <= currentY /\ currentY <= maxScroll

\* a frame has moved currentY strictly inside the range, towards a target that
\* an input pushed against the upper bound
C1_Witness ==
    /\ lastOp.name = "animate"
    /\ 0 < currentY /\ currentY < targetY
    /\ targetY = maxScroll

\* C2: before destroy(), whenever no animate callback is pending,
\* currentY = targetY.
C2_IdleMeansSettled ==
    (~Destroyed /\ Idle) => currentY = targetY

\* the loop has gone Idle on a frame, away from the top, after inputs
C2_Witness ==
    /\ ~Destroyed /\ Idle
    /\ lastOp.name = "animate"
    /\ currentY = targetY /\ targetY > 0

\* C3: under fair frames, once inputs have stopped the loop becomes Idle for
\* good with currentY = targetY (unless destroy() ran), and no frame of the
\* loop changes targetY: the settled offset is the target the last input left.
C3_EventuallySettled ==
    /\ <>[](Destroyed \/ (Idle /\ currentY = targetY))
    /\ [][lastOp'.name = "animate" => targetY' = targetY]_vars

\* inputs are used up, the loop is Idle and rests where the last input,
\* a key or a programmatic call, sent it
C3_Witness ==
    /\ ~Destroyed /\ Idle /\ rafQueue = <<>>
    /\ events <= MaxInputs - 2
    /\ currentY = targetY /\ targetY > 0
    /\ transform = round2(targetY)

\* C4: SmoothScroll.scrollTo(y) sets targetY to y clamped into [0, maxScroll];
\* SmoothScroll.scrollBy(d) sets targetY to (old targetY + d) clamped.
C4_ScrollToAndByClamp ==
    [][/\ lastOp'.name = "scrollTo"
          => targetY' = Clamped(lastOp'.y, maxScroll)
       /\ lastOp'.name = "scrollBy"
          => targetY' = Clamped(targetY + lastOp'.y, maxScroll)]_vars

\* a smooth scrollBy moved the target, unclamped, while the rendered offset
\* was somewhere else than the old target
C4_Witness ==
    /\ lastOp.name = "scrollBy" /\ lastOp.smooth
    /\ 0 < targetY /\ targetY < maxScroll
    /\ targetY - lastOp.y # currentY


\* C5: a non-smooth SmoothScroll.scrollTo / scrollBy sets currentY to the
\* clamped target in the same call and dispatches a scroll notification in
\* that call.
C5_InstantSnapsAndNotifies ==
    (lastOp.name \in {"scrollTo", "scrollBy"} /\ ~lastOp.smooth)
        => (currentY = targetY /\ lastOp.dispatched)

\* C6: in every reachable state isAnimating() is true exactly when the loop
\* is Running, i.e. exactly when an animate callback is scheduled.
C6_IsAnimatingIffRunning ==
    variant = "v2" => (apiIsAnimating(St) <=> Running)

EventHandlers ==
    {"wheel", "touchstart", "touchmove", "touchend", "keydown", "resize",
     "resizeTimer", "applyInertia", "animate"}

\* C7: no frame callback is pending right after destroy(), and after destroy()
\* no event, timer or frame callback writes the transform, dispatches a
\* notification or schedules a frame.
C7_NothingAfterDestroy ==
    /\ lastOp.name = "destroy" => (rafQueue = <<>> /\ frameBatch = <<>>)
    /\ (Destroyed /\ lastOp.name \in EventHandlers)
          => (~lastOp.wrote /\ ~lastOp.dispatched /\ ~lastOp.scheduled)

\* C8: after destroy() window.scrollTo, window.scrollBy and the scroll
\* position properties are all back to the native ones.
C8_DestroyRestoresOverrides ==
    Destroyed => (~page.scrollTo /\ ~page.scrollBy /\ ~page.scrollY)

NativeForms ==
    {"window.scrollTo", "window.scrollBy",
     "window.scrollTo(x,y)", "window.scrollBy(x,y)"}

\* C9: a call of the overridden window.scrollTo / window.scrollBy with
\* behavior "smooth" leaves currentY unchanged and starts the loop; every
\* other call, the two-number form included, sets currentY to the clamped
\* target in the same call.
C9_NativeFormsInstantUnlessSmooth ==
    [][lastOp'.name \in NativeForms
          => IF lastOp'.smooth
             THEN currentY' = currentY /\ Running'
             ELSE currentY' = targetY']_vars

\* C10: from the end of initialization until destroy(), window.scrollY /
\* window.pageYOffset read the same value as getPosition().
C10_ScrollYIsPosition ==
    ~Destroyed => scrollYQuery(St) = getPosition(St)

---------------------------------------------------------------------------
(* C11 .. C20 *)

\* C11: setConfig(partial) sets the configuration fields named in partial and
\* keeps every other one; targetY, currentY, maxScroll and the loop state
\* (rafId, pending callbacks, isAnimating) are unchanged by the call; a
\* running frame step moves currentY by the smoothFactor the configuration
\* holds at that frame.
C11_SetConfigFrame ==
    [][/\ lastOp'.name = "setConfig"
          => /\ DOMAIN config' = DOMAIN config
             /\ \A f \in DOMAIN config :
                   config'[f] = IF f \in DOMAIN lastOp'.y THEN lastOp'.y[f]
                                                          ELSE config[f]
             /\ targetY' = targetY /\ currentY' = currentY
             /\ maxScroll' = maxScroll
             /\ rafId' = rafId /\ isAnimating' = isAnimating
             /\ rafQueue' = rafQueue /\ frameBatch' = frameBatch
       /\ (lastOp'.name = "animate"
             /\ Abs(targetY - currentY) > SettleThreshold)
          => currentY' = currentY
                 + Rnd((targetY - currentY) * config.smoothFactor, 100)]_vars

\* a second setConfig named smoothFactor only, while the loop was Running
\* away from its target: inertiaDecay keeps what the first call gave it
C11_Witness ==
    /\ lastOp.name = "setConfig"
    /\ DOMAIN lastOp.y = {"smoothFactor"}
    /\ config.smoothFactor = 100
    /\ config.inertiaDecay # DefaultInertiaDecay
    /\ Running /\ currentY # targetY

\* C12: a burst of resize events less than the quiet period apart runs the
\* bounds recompute exactly once: no resize event recomputes by itself, no
\* recompute runs while a timer of the burst is pending or before the quiet
\* period has passed since the last event, one has run once no timer is
\* pending, and a pending timer does fire.
C12_ResizeDebounced ==
    /\ [](/\ resizeTimeout # <<>> => burst.recomputes = 0
          /\ (resizeTimeout = <<>> /\ burst.events > 0) => burst.recomputes = 1
          /\ burst.recomputes > 0 => burst.since >= QuietTicks)
    /\ [][/\ lastOp'.name = "resize"
             => (maxScroll' = maxScroll /\ targetY' = targetY
                   /\ currentY' = currentY)
          /\ lastOp'.name = "resizeTimer"
             => maxScroll' = Max2(0, scrollHeight - innerHeight)]_vars
    /\ (resizeTimeout # <<>>) ~> (resizeTimeout = <<>>)

\* the timer fired after a burst of several resize events that changed the
\* bounds
C12_Witness ==
    /\ lastOp.name = "resizeTimer"
    /\ burst.events >= 2 /\ burst.recomputes = 1
    /\ maxScroll > 0 /\ maxScroll < Px(MaxContent)

\* the handlers that recompute the bounds
Recomputes == {"updateBounds", "resizeTimer"}

\* C13: a bounds recompute with content height H and viewport height V sets
\* maxScroll = max(0, H - V) and clamps the old targetY and the old currentY
\* into [0, maxScroll], at initialization and at every later recompute; with
\* H <= V that is maxScroll = 0 and targetY = currentY = 0, and while
\* maxScroll is 0 every other handler leaves targetY at 0.
C13_RecomputeBounds ==
    /\ [](lastOp.name = "init"
             => maxScroll = Max2(0, scrollHeight - innerHeight))
    /\ [][/\ lastOp'.name \in Recomputes
             => /\ maxScroll' = (IF scrollHeight > innerHeight
                                  THEN scrollHeight - innerHeight ELSE 0)
                /\ targetY' = Clamped(targetY, maxScroll')
                /\ currentY' = Clamped(currentY, maxScroll')
                /\ scrollHeight <= innerHeight
                      => (maxScroll' = 0 /\ targetY' = 0 /\ currentY' = 0)
          /\ (maxScroll = 0 /\ lastOp'.name \notin Recomputes)
             => (maxScroll' = 0 /\ targetY' = 0)]_vars

\* a recompute found the content no taller than the viewport while the page
\* was scrolled: the transform still shows the offset that was clamped to 0
C13_Witness ==
    /\ lastOp.name \in Recomputes
    /\ scrollHeight <= innerHeight
    /\ transform > 0
    /\ maxScroll = 0 /\ targetY = 0 /\ currentY = 0

\* C14: a frame step of the loop does one of two things.  If targetY and
\* currentY are more than 0.5px apart it moves currentY by smoothFactor times
\* the distance, schedules the next frame and the loop stays Running;
\* otherwise it sets currentY = targetY, schedules nothing and the loop is
\* Idle.  With smoothFactor 0.08, from 0 towards 100 one step gives 8.
C14_FrameStep ==
    [][lastOp'.name = "animate"
          => /\ IF Abs(targetY - currentY) > Px(1) \div 2
                THEN /\ currentY' = currentY
                           + Rnd((targetY - currentY) * config.smoothFactor, 100)
                     /\ lastOp'.scheduled /\ Running'
                ELSE /\ currentY' = targetY
                     /\ ~lastOp'.scheduled /\ Idle'
             /\ targetY' = targetY
             /\ lerp(Px(0), Px(100), DefaultSmoothFactor) = Px(8)]_vars

\* a running step at the default smoothFactor, moving up the page towards a
\* target below the rendered offset
C14_Witness ==
    /\ lastOp.name = "animate" /\ lastOp.scheduled
    /\ config.smoothFactor = DefaultSmoothFactor
    /\ targetY < currentY /\ currentY < maxScroll
    /\ transform = round2(currentY)

\* C15: in every reachable state at most one frame callback is scheduled,
\* inertia runs included.
C15_AtMostOneFrameCallback ==
    Len(rafQueue) + Len(frameBatch) <= 1

\* animate callbacks pending in s
AnimateCallbacks(s) ==
    Cardinality({i \in DOMAIN s.rafQueue : s.rafQueue[i].kind = "animate"})
      + Cardinality({i \in DOMAIN s.frameBatch :
                        s.frameBatch[i].kind = "animate"})

\* C16: an operation that changes targetY while the loop is Idle leaves the
\* loop Running; one that changes it while the loop is Running leaves the
\* one animate callback that was pending and schedules no other.
C16_TargetChangeStartsLoop ==
    [][targetY' # targetY
          => IF Idle THEN Running'
                     ELSE AnimateCallbacks(St)' = AnimateCallbacks(St)]_vars

\* C17: touch-start records velocity 0.  On touch-end with a recorded
\* velocity v, |v| <= 0.2 schedules no frame and leaves the callbacks that
\* are pending as they are; |v| > 0.2 starts one inertia run, its callback
\* holding v times inertiaMultiplier.  targetY is unchanged either way.
C17_TouchEndThreshold ==
    [][/\ lastOp'.name = "touchstart" => touchVelocity' = 0
       /\ lastOp'.name = "touchend"
          => /\ targetY' = targetY
             /\ IF Abs(touchVelocity) * 5 <= Px(1)
                THEN ~lastOp'.scheduled /\ rafQueue' = rafQueue
                ELSE /\ PendingInertia(St)' = PendingInertia(St) + 1
                     /\ rafQueue'[Len(rafQueue')].kind = "inertia"
                     /\ rafQueue'[Len(rafQueue')].velocity
                           = Rnd(touchVelocity * config.inertiaMultiplier, 100)
                     /\ SubSeq(rafQueue', 1, Len(rafQueue)) = rafQueue]_vars

\* a release after a slow move: the recorded velocity is exactly 0.2 and no
\* inertia run was started
C17_Witness ==
    /\ lastOp.name = "touchend"
    /\ Abs(touchVelocity) * 5 = Px(1)
    /\ ~lastOp.scheduled /\ PendingInertia(St) = 0

\* C18: each inertia frame multiplies the run's velocity by inertiaDecay,
\* which strictly decreases its magnitude, and adds the decayed velocity to
\* targetY, clamped into [0, maxScroll]; it requests the run's next frame
\* exactly when the decayed magnitude is above 0.5; and every run ends: from
\* some point on no inertia callback is pending.
C18_InertiaTerminates ==
    /\ [][lastOp'.name = "applyInertia"
             => LET v == Head(NextBatch).velocity
                    d == Rnd(v * config.inertiaDecay, 100)
                IN  /\ Abs(d) < Abs(v)
                    /\ targetY' = Clamped(targetY + d, maxScroll)
                    /\ IF Abs(d) * 2 > Px(1)
                       THEN /\ PendingInertia(St)' = PendingInertia(St)
                            /\ rafQueue'[Len(rafQueue')]
                                  = [id |-> rafQueue'[Len(rafQueue')].id,
                                     kind |-> "inertia", velocity |-> d]
                       ELSE PendingInertia(St)' = PendingInertia(St) - 1]_vars
    /\ <>[](PendingInertia(St) = 0)

\* the last frame of a run at the default decay: the run has carried the
\* target to the end of the page and requests no further frame
C18_Witness ==
    /\ lastOp.name = "applyInertia"
    /\ PendingInertia(St) = 0
    /\ config.inertiaDecay = DefaultInertiaDecay
    /\ maxScroll > 0 /\ targetY = maxScroll

\* C19: once a touch-start has begun a new gesture, the inertia run of the
\* previous gesture changes targetY no more.
C19_TouchStartSupersedesInertia ==
    [][(isTouchDown /\ lastOp'.name = "applyInertia")
          => targetY' = targetY]_vars

\* currentY as the listeners last heard of it: its value at the most recent
\* notification, the offset 0 of the freshly loaded page before any
NotifiedY == IF lastNotifiedY = -1 THEN 0 ELSE lastNotifiedY

\* C20: a Running step of the loop dispatches a notification exactly when
\* the new currentY is more than 1px from its value at the last notification;
\* the settling step dispatches one exactly when the new currentY differs
\* from that value at all.
C20_NotificationThresholds ==
    [][lastOp'.name = "animate"
          => (lastOp'.dispatched
                <=> IF Abs(targetY - currentY) > Px(1) \div 2
                    THEN Abs(currentY' - NotifiedY) > Px(1)
                    ELSE currentY' # NotifiedY)]_vars

---------------------------------------------------------------------------
(* C21 .. C24 *)

\* C21: a key event whose target is a text input or a text area, whatever the
\* key, and an unrecognized key anywhere, leave targetY, currentY and the
\* loop state as they are and are not default-prevented.
C21_KeysInFieldsPassThrough ==
    [][(lastOp'.name = "keydown"
          /\ (lastOp'.y.inInput \/ ~lastOp'.y.scrollKey))
          => /\ targetY' = targetY /\ currentY' = currentY
             /\ rafId' = rafId /\ isAnimating' = isAnimating
             /\ rafQueue' = rafQueue /\ frameBatch' = frameBatch
             /\ ~lastOp'.prevented]_vars

\* C22: before destroy(), whenever the loop is Idle the offset last written
\* to the transform of the content layer is currentY.
C22_IdleTransformIsCurrent ==
    (~Destroyed /\ Idle) => transform = round2(currentY)

\* C23: before destroy(), whenever the loop is Idle the value currentY had
\* at the most recent scroll notification is the present currentY.
C23_IdleMeansNotified ==
    (~Destroyed /\ Idle) => NotifiedY = currentY

\* C24: in every reachable state, after destroy() too, rafId is non-null
\* exactly when an animate callback is pending.
C24_HandleMatchesScheduler ==
    (rafId # 0) <=> Running

=============================================================================
